---- MODULE Spec2Model ----
(***************************************************************************)
(* Black-Scholes pricing engine of options_calculator.py:                  *)
(* BlackScholesCalculator.black_scholes_price and .calculate_greeks.       *)
(*                                                                         *)
(* Reals are modelled as decimal fixed-point numbers (an integer n stands  *)
(* for n / SCALE), each arithmetic operation rounding to the nearest unit  *)
(* the way a float operation rounds to the nearest representable number.   *)
(* The IEEE-754 special values the code can produce (inf, -inf, nan) are   *)
(* kept: a value is a record [k |-> kind, v |-> integer].                  *)
(***************************************************************************)
EXTENDS Integers, Sequences, FiniteSets, TLC

(***************************************************************************)
(* Fixed-point arithmetic on integers (finite floats).                     *)
(***************************************************************************)
SCALE == 10 ^ 4

Abs(x) == IF x < 0 THEN -x ELSE x

Sgn(x) == IF x < 0 THEN -1 ELSE IF x > 0 THEN 1 ELSE 0

\* n / d rounded to nearest, n >= 0, d > 0
RoundDivNat(n, d) == (n \div d) + (IF 2 * (n % d) >= d THEN 1 ELSE 0)

\* n / d rounded to nearest (half away from zero), d > 0
RoundDiv(n, d) == IF n < 0 THEN -RoundDivNat(-n, d) ELSE RoundDivNat(n, d)

\* a * b of two fixed-point numbers; the operands are split so that no
\* intermediate product exceeds the result's own magnitude times SCALE
MulFP(a, b) ==
    LET x == Abs(a)
        y == Abs(b)
        xh == x \div SCALE
        xl == x % SCALE
        yh == y \div SCALE
        yl == y % SCALE
    IN Sgn(a) * Sgn(b) * (xh * yh * SCALE + xh * yl + xl * yh + RoundDivNat(xl * yl, SCALE))

RECURSIVE LongDiv(_, _, _, _)
\* long division: acc holds the quotient digits so far, rem < y the remainder,
\* s the weight of the digits still to produce; the last digit is rounded
LongDiv(acc, rem, y, s) ==
    IF s = 1 THEN acc + (IF 2 * rem >= y THEN 1 ELSE 0)
    ELSE LongDiv(acc * 10 + ((rem * 10) \div y), (rem * 10) % y, y, s \div 10)

\* a / b of two fixed-point numbers, b # 0
DivFP(a, b) ==
    LET x == Abs(a)
        y == Abs(b)
    IN Sgn(a) * Sgn(b) * LongDiv(x \div y, x % y, y, SCALE)

RECURSIVE ISqrtSearch(_, _, _)
\* the largest root in lo..hi with root * root <= n  (lo * lo <= n)
ISqrtSearch(n, lo, hi) ==
    IF lo >= hi THEN lo
    ELSE LET mid == (lo + hi + 1) \div 2
         IN IF mid * mid <= n THEN ISqrtSearch(n, mid, hi)
            ELSE ISqrtSearch(n, lo, mid - 1)

\* sqrt(x), x >= 0, rounded to nearest
SqrtFP(x) ==
    LET n == x * SCALE
        root == ISqrtSearch(n, 0, 46340)
    IN IF n - root * root > root THEN root + 1 ELSE root

\* ln 2, 1/sqrt(2 pi) in fixed point
LN2 == RoundDiv(69314718, 10 ^ 8 \div SCALE)

INV_SQRT_2PI == RoundDiv(39894228, 10 ^ 8 \div SCALE)

RECURSIVE LnReduce(_, _)
\* x = m * 2^e with m in [1, 2): <<m, e>>
LnReduce(x, e) ==
    IF x >= 2 * SCALE THEN LnReduce(RoundDivNat(x, 2), e + 1)
    ELSE IF x < SCALE THEN LnReduce(2 * x, e - 1)
    ELSE <<x, e>>

\* ln(x), x > 0:  ln(m * 2^e) = e ln 2 + 2 atanh((m - 1) / (m + 1))
LnFP(x) ==
    LET me == LnReduce(x, 0)
        m == me[1]
        y == DivFP(m - SCALE, m + SCALE)
        y2 == MulFP(y, y)
        series == SCALE + MulFP(y2, RoundDiv(SCALE, 3)
                     + MulFP(y2, RoundDiv(SCALE, 5)
                         + MulFP(y2, RoundDiv(SCALE, 7)
                             + MulFP(y2, RoundDiv(SCALE, 9)))))
    IN me[2] * LN2 + 2 * MulFP(y, series)

RECURSIVE ExpSeries(_, _, _)
\* 1 + x/n (1 + x/(n+1) (1 + ... )) down from term last
ExpSeries(x, n, last) ==
    IF n > last THEN SCALE
    ELSE SCALE + RoundDiv(MulFP(x, ExpSeries(x, n + 1, last)), n)

\* exp(x): exp(e ln 2 + f) = 2^e exp(f), 0 <= f < ln 2; below the smallest
\* representable magnitude the result rounds to zero
ExpFP(x) ==
    IF x < -12 * SCALE THEN 0
    ELSE LET e == x \div LN2
             f == x - e * LN2
             ef == ExpSeries(f, 1, 10)
         IN IF e >= 0 THEN ef * (2 ^ e) ELSE RoundDivNat(ef, 2 ^ (-e))

\* norm.pdf(x) = exp(-x^2 / 2) / sqrt(2 pi)
PdfFP(x) == MulFP(INV_SQRT_2PI, ExpFP(-RoundDiv(MulFP(x, x), 2)))

\* norm.cdf(x): for x >= 0 the complementary tail is evaluated and subtracted
\* from 1, for x < 0 the tail of -x is returned (scipy's ndtr has this shape);
\* the tail is pdf(x) * t (b1 + t (b2 + t (b3 + t (b4 + t b5)))), t = 1/(1 + p x)
TailFP(x) ==
    LET t == DivFP(SCALE, SCALE + MulFP(RoundDiv(2316419, 10 ^ 7 \div SCALE), x))
        b1 == RoundDiv(319381530, 10 ^ 9 \div SCALE)
        b2 == RoundDiv(-356563782, 10 ^ 9 \div SCALE)
        b3 == RoundDiv(1781477937, 10 ^ 9 \div SCALE)
        b4 == RoundDiv(-1821255978, 10 ^ 9 \div SCALE)
        b5 == RoundDiv(1330274429, 10 ^ 9 \div SCALE)
        poly == MulFP(t, b1 + MulFP(t, b2 + MulFP(t, b3 + MulFP(t, b4 + MulFP(t, b5)))))
    IN MulFP(PdfFP(x), poly)

CdfFP(x) == IF x >= 0 THEN SCALE - TailFP(x) ELSE TailFP(-x)

(***************************************************************************)
(* Float values: finite numbers and the IEEE-754 specials.  numpy scalar   *)
(* arithmetic does not raise on division by zero or on log of a            *)
(* non-positive number: it returns inf, -inf or nan.                       *)
(***************************************************************************)
Fin(n) == [k |-> "fin", v |-> n]

PInf == [k |-> "pinf", v |-> 0]

NInf == [k |-> "ninf", v |-> 0]

NaN == [k |-> "nan", v |-> 0]

IsFin(a) == a.k = "fin"

IsNaN(a) == a.k = "nan"

\* -1, 0 or 1; not used on nan
SignV(a) == IF a.k = "pinf" THEN 1 ELSE IF a.k = "ninf" THEN -1 ELSE Sgn(a.v)

InfOf(sign) == IF sign > 0 THEN PInf ELSE NInf

Neg(a) ==
    CASE a.k = "fin" -> Fin(-a.v)
      [] a.k = "pinf" -> NInf
      [] a.k = "ninf" -> PInf
      [] OTHER -> NaN

Add(a, b) ==
    IF IsNaN(a) \/ IsNaN(b) THEN NaN
    ELSE IF IsFin(a) /\ IsFin(b) THEN Fin(a.v + b.v)
    ELSE IF IsFin(a) THEN b
    ELSE IF IsFin(b) THEN a
    ELSE IF a.k = b.k THEN a
    ELSE NaN

Sub(a, b) == Add(a, Neg(b))

Mul(a, b) ==
    IF IsNaN(a) \/ IsNaN(b) THEN NaN
    ELSE IF IsFin(a) /\ IsFin(b) THEN Fin(MulFP(a.v, b.v))
    ELSE IF SignV(a) * SignV(b) = 0 THEN NaN
    ELSE InfOf(SignV(a) * SignV(b))

\* numpy float64 division
Div(a, b) ==
    IF IsNaN(a) \/ IsNaN(b) THEN NaN
    ELSE IF IsFin(a) /\ IsFin(b)
         THEN IF b.v # 0 THEN Fin(DivFP(a.v, b.v))
              ELSE IF a.v = 0 THEN NaN
              ELSE InfOf(Sgn(a.v))
    ELSE IF IsFin(b) THEN InfOf(SignV(a) * (IF b.v < 0 THEN -1 ELSE 1))
    ELSE IF IsFin(a) THEN Fin(0)
    ELSE NaN

\* np.log
Log(a) ==
    CASE a.k = "fin" -> (IF a.v > 0 THEN Fin(LnFP(a.v))
                         ELSE IF a.v = 0 THEN NInf
                         ELSE NaN)
      [] a.k = "pinf" -> PInf
      [] OTHER -> NaN

\* np.exp
Exp(a) ==
    CASE a.k = "fin" -> Fin(ExpFP(a.v))
      [] a.k = "pinf" -> PInf
      [] a.k = "ninf" -> Fin(0)
      [] OTHER -> NaN

\* np.sqrt
Sqrt(a) ==
    CASE a.k = "fin" -> (IF a.v >= 0 THEN Fin(SqrtFP(a.v)) ELSE NaN)
      [] a.k = "pinf" -> PInf
      [] OTHER -> NaN

\* scipy.stats.norm.cdf
norm_cdf(a) ==
    CASE a.k = "fin" -> Fin(CdfFP(a.v))
      [] a.k = "pinf" -> Fin(SCALE)
      [] a.k = "ninf" -> Fin(0)
      [] OTHER -> NaN

\* scipy.stats.norm.pdf
norm_pdf(a) ==
    CASE a.k = "fin" -> Fin(PdfFP(a.v))
      [] a.k = "nan" -> NaN
      [] OTHER -> Fin(0)

\* Python's  a > 0  (False for nan)
GtZero(a) == a.k = "pinf" \/ (a.k = "fin" /\ a.v > 0)

\* Python's max(0, price): the first argument is kept unless price > 0
Max0(price) == IF GtZero(price) THEN price ELSE Fin(0)

(***************************************************************************)
(* The caller's parameter tuple and the results it has obtained so far.    *)
(***************************************************************************)
VARIABLES S, K, T, r, sigma, np_scalars, price_out, greeks_out

vars == <<S, K, T, r, sigma, np_scalars, price_out, greeks_out>>

\* the values of option_type the callers pass
OptionTypes == {"call", "put"}

\* a call that leaves option_type out
Omitted == "<omitted>"

\* a value of option_type that is neither 'call' nor 'put': the side as the
\* specification's enum {Call, Put} spells it
Unrecognised == "Call"

\* what a caller may write in the option_type position
PassedArgs == OptionTypes \cup {Unrecognised, Omitted}

\* the parameter default  option_type='call'  (lines 54, 70)
BindOptionType(arg) == IF arg = Omitted THEN "call" ELSE arg

\* Parameter grid: index 0 is a negative value, index 1 is zero, the rest
\* are positive.
MaxSpotIdx == 3

MaxStrikeIdx == 3

MaxExpiryIdx == 3

MaxRateIdx == 2

MaxVolIdx == 3

Spots == {(i - 1) * 50 * SCALE : i \in 0..MaxSpotIdx}

Strikes == {(i - 1) * 50 * SCALE : i \in 0..MaxStrikeIdx}

Expiries == {(i - 1) * (SCALE \div 2) : i \in 0..MaxExpiryIdx}

Rates == {(i - 1) * (SCALE \div 20) : i \in 0..MaxRateIdx}

Vols == {(i - 1) * (SCALE \div 5) : i \in 0..MaxVolIdx}

NoValue == [k |-> "none", v |-> 0]

NoPrice == [status |-> "none", branch |-> "none", value |-> NoValue]

NoGreeks == [status |-> "none", branch |-> "none", delta |-> NoValue,
             gamma |-> NoValue, theta |-> NoValue, vega |-> NoValue,
             rho |-> NoValue]

\* S / K (lines 59, 75): between two Python floats a zero divisor raises
\* ZeroDivisionError; when an operand is a numpy scalar (the np.linspace
\* sweeps) the division follows IEEE-754
QuotientRaises(spot, strike) == ~np_scalars /\ strike = 0

Quotient(spot, strike) == Div(Fin(spot), Fin(strike))

\* d1 = (np.log(S / K) + (r + 0.5 * sigma**2) * T) / (sigma * np.sqrt(T))
D1(spot, strike, expiry, rate, vol) ==
    Div(Add(Log(Quotient(spot, strike)),
            Mul(Add(Fin(rate), Mul(Fin(SCALE \div 2), Mul(Fin(vol), Fin(vol)))),
                Fin(expiry))),
        Mul(Fin(vol), Sqrt(Fin(expiry))))

\* d2 = d1 - sigma * np.sqrt(T)
D2(d1, expiry, vol) == Sub(d1, Mul(Fin(vol), Sqrt(Fin(expiry))))

\* K * np.exp(-r * T)
DiscountedStrike(strike, expiry, rate) ==
    Mul(Fin(strike), Exp(Mul(Neg(Fin(rate)), Fin(expiry))))

\* slip: the volatility test is left out of the guard
PriceDegenerateTimeOnly(expiry, vol) == expiry <= 0

\* if T <= 0 or sigma <= 0
PriceDegenerate(expiry, vol) == expiry <= 0 \/ vol <= 0

\* slip: the put branch evaluates the distribution at d2 and d1, not -d2 and -d1
PriceFormulaPutSlip(spot, strike, expiry, rate, d1, d2, option_type) ==
    IF option_type = "call"
    THEN Sub(Mul(Fin(spot), norm_cdf(d1)),
             Mul(DiscountedStrike(strike, expiry, rate), norm_cdf(d2)))
    ELSE Sub(Mul(DiscountedStrike(strike, expiry, rate), norm_cdf(d2)),
             Mul(Fin(spot), norm_cdf(d1)))

\* slip: the branch tests for 'put', every other value is priced as a call
PriceFormulaDispatchOnPut(spot, strike, expiry, rate, d1, d2, option_type) ==
    IF option_type = "put"
    THEN Sub(Mul(DiscountedStrike(strike, expiry, rate), norm_cdf(Neg(d2))),
             Mul(Fin(spot), norm_cdf(Neg(d1))))
    ELSE Sub(Mul(Fin(spot), norm_cdf(d1)),
             Mul(DiscountedStrike(strike, expiry, rate), norm_cdf(d2)))

\* lines 62-65
PriceFormula(spot, strike, expiry, rate, d1, d2, option_type) ==
    IF option_type = "call"
    THEN Sub(Mul(Fin(spot), norm_cdf(d1)),
             Mul(DiscountedStrike(strike, expiry, rate), norm_cdf(d2)))
    ELSE Sub(Mul(DiscountedStrike(strike, expiry, rate), norm_cdf(Neg(d2))),
             Mul(Fin(spot), norm_cdf(Neg(d1))))

\* slip: the formula value is returned unclamped
PriceReturnUnclamped(price) == price

\* return max(0, price)
PriceReturn(price) == Max0(price)

black_scholes_price(spot, strike, expiry, rate, vol, option_type) ==
    IF PriceDegenerate(expiry, vol)
    THEN [status |-> "ok", branch |-> "degenerate", value |-> Fin(0)]
    ELSE IF QuotientRaises(spot, strike)
    THEN [status |-> "ZeroDivisionError", branch |-> "general", value |-> NoValue]
    ELSE LET d1 == D1(spot, strike, expiry, rate, vol)
             d2 == D2(d1, expiry, vol)
             price == PriceFormula(spot, strike, expiry, rate, d1, d2, option_type)
         IN [status |-> "ok", branch |-> "general", value |-> PriceReturn(price)]

\* slip: strict comparison in the guard
GreeksDegenerateStrict(expiry, vol) == expiry < 0

\* if T <= 0
GreeksDegenerate(expiry, vol) == expiry <= 0

\* slip: the put's delta is not shifted by -1
DeltaUnshifted(d1, option_type) == norm_cdf(d1)

\* lines 79-82
Delta(d1, option_type) ==
    IF option_type = "call" THEN norm_cdf(d1) ELSE Sub(norm_cdf(d1), Fin(SCALE))

\* slip: gamma takes the sign of the side
GammaSigned(spot, expiry, vol, d1, option_type) ==
    LET g == Div(norm_pdf(d1), Mul(Mul(Fin(spot), Fin(vol)), Sqrt(Fin(expiry))))
    IN IF option_type = "call" THEN g ELSE Neg(g)

\* gamma = norm.pdf(d1) / (S * sigma * np.sqrt(T))
Gamma(spot, expiry, vol, d1, option_type) ==
    Div(norm_pdf(d1), Mul(Mul(Fin(spot), Fin(vol)), Sqrt(Fin(expiry))))

\* lines 88-93
Theta(spot, strike, expiry, rate, vol, d1, d2, option_type) ==
    LET decay == Div(Neg(Mul(Mul(Fin(spot), norm_pdf(d1)), Fin(vol))),
                     Mul(Fin(2 * SCALE), Sqrt(Fin(expiry))))
        carry == Mul(Fin(rate), DiscountedStrike(strike, expiry, rate))
    IN IF option_type = "call"
       THEN Sub(decay, Mul(carry, norm_cdf(d2)))
       ELSE Add(decay, Mul(carry, norm_cdf(Neg(d2))))

\* vega = S * norm.pdf(d1) * np.sqrt(T)
Vega(spot, expiry, d1, option_type) ==
    Mul(Mul(Fin(spot), norm_pdf(d1)), Sqrt(Fin(expiry)))

\* lines 99-102
Rho(strike, expiry, rate, d2, option_type) ==
    LET kt == Mul(Mul(Fin(strike), Fin(expiry)), Exp(Mul(Neg(Fin(rate)), Fin(expiry))))
    IN IF option_type = "call"
       THEN Mul(kt, norm_cdf(d2))
       ELSE Mul(Neg(kt), norm_cdf(Neg(d2)))

DAYS_PER_YEAR == 365

PERCENT == 100

\* slip: theta is returned annualized
PerDayUnscaled(theta) == theta

\* theta / 365, vega / 100, rho / 100
PerDay(theta) == Div(theta, Fin(DAYS_PER_YEAR * SCALE))

PerPoint(x) == Div(x, Fin(PERCENT * SCALE))

calculate_greeks(spot, strike, expiry, rate, vol, option_type) ==
    IF GreeksDegenerate(expiry, vol)
    THEN [status |-> "ok", branch |-> "degenerate", delta |-> Fin(0),
          gamma |-> Fin(0), theta |-> Fin(0), vega |-> Fin(0), rho |-> Fin(0)]
    ELSE IF QuotientRaises(spot, strike)
    THEN [NoGreeks EXCEPT !.status = "ZeroDivisionError", !.branch = "general"]
    ELSE LET d1 == D1(spot, strike, expiry, rate, vol)
             d2 == D2(d1, expiry, vol)
         IN [status |-> "ok", branch |-> "general",
             delta |-> Delta(d1, option_type),
             gamma |-> Gamma(spot, expiry, vol, d1, option_type),
             theta |-> PerDay(Theta(spot, strike, expiry, rate, vol, d1, d2, option_type)),
             vega |-> PerPoint(Vega(spot, expiry, d1, option_type)),
             rho |-> PerPoint(Rho(strike, expiry, rate, d2, option_type))]

Init ==
    /\ S \in Spots
    /\ K \in Strikes
    /\ T \in Expiries
    /\ r \in Rates
    /\ sigma \in Vols
    /\ np_scalars \in BOOLEAN
    /\ price_out = [arg \in PassedArgs |-> NoPrice]
    /\ greeks_out = [arg \in PassedArgs |-> NoGreeks]

\* calculator.black_scholes_price(S, K, T, r, sigma, option_type)
CallPrice(option_type) ==
    /\ price_out' = [price_out EXCEPT
                        ![option_type] = black_scholes_price(S, K, T, r, sigma, option_type)]
    /\ UNCHANGED <<S, K, T, r, sigma, np_scalars, greeks_out>>

\* calculator.calculate_greeks(S, K, T, r, sigma, option_type)
CallGreeks(option_type) ==
    /\ greeks_out' = [greeks_out EXCEPT
                         ![option_type] = calculate_greeks(S, K, T, r, sigma, option_type)]
    /\ UNCHANGED <<S, K, T, r, sigma, np_scalars, price_out>>

Next ==
    \E option_type \in OptionTypes :
        \/ CallPrice(option_type)
        \/ CallGreeks(option_type)

Spec == Init /\ [][Next]_vars

\* a call whose option_type is left out or is not one of the two sides
CallPriceArg(arg) ==
    /\ price_out' = [price_out EXCEPT
                        ![arg] = black_scholes_price(S, K, T, r, sigma, BindOptionType(arg))]
    /\ UNCHANGED <<S, K, T, r, sigma, np_scalars, greeks_out>>

CallGreeksArg(arg) ==
    /\ greeks_out' = [greeks_out EXCEPT
                         ![arg] = calculate_greeks(S, K, T, r, sigma, BindOptionType(arg))]
    /\ UNCHANGED <<S, K, T, r, sigma, np_scalars, price_out>>

NextDispatch ==
    \E arg \in {Unrecognised, Omitted} :
        \/ CallPriceArg(arg)
        \/ CallGreeksArg(arg)

SpecDispatch == Init /\ [][NextDispatch]_vars

(***************************************************************************)
(* Properties.                                                             *)
(***************************************************************************)
Called(res) == res.status # "none"

AllZero(g) ==
    /\ g.delta = Fin(0)
    /\ g.gamma = Fin(0)
    /\ g.theta = Fin(0)
    /\ g.vega = Fin(0)
    /\ g.rho = Fin(0)

\* section 3 of the specification: spot > 0, strike > 0, T >= 0, sigma >= 0
ValidParams == S > 0 /\ K > 0 /\ T >= 0 /\ sigma >= 0

NonDegenerate == S > 0 /\ K > 0 /\ T > 0 /\ sigma > 0

\* section 4.1: what must be rejected
InvalidParams == S <= 0 \/ K <= 0 \/ T < 0 \/ sigma < 0 \/ r < 0

\* C1: every call of black_scholes_price or calculate_greeks on an input with
\* spot <= 0, strike <= 0 or a negative time, volatility or rate fails with
\* InvalidParameter and returns no numeric result.
C1_InvalidInputRejected ==
    InvalidParams =>
        \A ot \in OptionTypes :
            /\ Called(price_out[ot]) => price_out[ot].status = "InvalidParameter"
            /\ Called(greeks_out[ot]) => greeks_out[ot].status = "InvalidParameter"

\* C2: for valid parameters and either side the returned price is a number
\* >= 0: 0 on the degenerate branch, the clamped formula value otherwise.
C2_PriceNonNegative ==
    ValidParams =>
        \A ot \in OptionTypes :
            Called(price_out[ot]) =>
                /\ price_out[ot].status = "ok"
                /\ price_out[ot].value.k \in {"fin", "pinf"}
                /\ price_out[ot].value.v >= 0
                /\ price_out[ot].branch = "degenerate" => price_out[ot].value = Fin(0)

\* a valid non-degenerate put whose formula value is negative and was
\* clamped to 0 by the return statement
C2_Witness ==
    /\ NonDegenerate
    /\ price_out["put"].status = "ok"
    /\ price_out["put"].branch = "general"
    /\ PriceFormula(S, K, T, r, D1(S, K, T, r, sigma),
                    D2(D1(S, K, T, r, sigma), T, sigma), "put").v < 0
    /\ price_out["put"].value = Fin(0)

\* C3: with spot > 0 and strike > 0, black_scholes_price returns exactly 0
\* through the early return (d1, d2 and the formula are not evaluated)
\* whenever time_to_expiry = 0 or volatility = 0, for any rate and side.
C3_DegeneratePriceZero ==
    (S > 0 /\ K > 0 /\ (T = 0 \/ sigma = 0)) =>
        \A ot \in OptionTypes :
            Called(price_out[ot]) =>
                /\ price_out[ot].status = "ok"
                /\ price_out[ot].branch = "degenerate"
                /\ price_out[ot].value = Fin(0)

\* zero volatility with time left: both sides priced
C3_Witness ==
    /\ S > 0 /\ K > 0
    /\ sigma = 0 /\ T > 0
    /\ Called(price_out["call"])
    /\ Called(price_out["put"])

\* C4: calculate_greeks with time_to_expiry = 0 returns delta, gamma, theta,
\* vega and rho all equal to 0 through the early return (d1 is not
\* evaluated), for any spot, strike, rate, volatility and side.
C4_ZeroTimeGreeksZero ==
    T = 0 =>
        \A ot \in OptionTypes :
            Called(greeks_out[ot]) =>
                /\ greeks_out[ot].status = "ok"
                /\ greeks_out[ot].branch = "degenerate"
                /\ AllZero(greeks_out[ot])

C4_Witness ==
    /\ T = 0
    /\ sigma > 0
    /\ S > 0 /\ K > 0
    /\ Called(greeks_out["call"])
    /\ Called(greeks_out["put"])

\* C5: with volatility = 0, time_to_expiry > 0 and otherwise valid input,
\* calculate_greeks is not an error and returns all five fields equal to 0.
C5_ZeroVolGreeksZero ==
    (S > 0 /\ K > 0 /\ T > 0 /\ sigma = 0 /\ r >= 0) =>
        \A ot \in OptionTypes :
            Called(greeks_out[ot]) =>
                /\ greeks_out[ot].status = "ok"
                /\ AllZero(greeks_out[ot])

\* the tolerance of put-call parity: one unit of resolution relative to the
\* magnitudes S and K that enter the two sides
ParityTolerance == (S + K) \div SCALE

\* C6: put-call parity: for valid input with T > 0 and sigma > 0,
\* price(call) - price(put) = S - K exp(-r T) within the tolerance, the
\* clamp max(0, price) of each side included.
C6_PutCallParity ==
    (NonDegenerate /\ Called(price_out["call"]) /\ Called(price_out["put"])) =>
        /\ price_out["call"].status = "ok"
        /\ price_out["put"].status = "ok"
        /\ IsFin(price_out["call"].value)
        /\ IsFin(price_out["put"].value)
        /\ Abs(price_out["call"].value.v - price_out["put"].value.v
               - (S - DiscountedStrike(K, T, r).v)) <= ParityTolerance

\* both sides priced, the put's formula value negative and clamped
C6_Witness ==
    /\ C2_Witness
    /\ price_out["call"].status = "ok"
    /\ price_out["call"].value.v > 0

\* C7: for valid non-degenerate input delta is in [0, 1] for a call and in
\* [-1, 0] for a put.
C7_DeltaBounds ==
    NonDegenerate =>
        /\ Called(greeks_out["call"]) =>
              /\ IsFin(greeks_out["call"].delta)
              /\ greeks_out["call"].delta.v >= 0
              /\ greeks_out["call"].delta.v <= SCALE
        /\ Called(greeks_out["put"]) =>
              /\ IsFin(greeks_out["put"].delta)
              /\ greeks_out["put"].delta.v >= -SCALE
              /\ greeks_out["put"].delta.v <= 0

\* an in-the-money call and the put of the same parameters, both strictly
\* inside their intervals
C7_Witness ==
    /\ NonDegenerate
    /\ Called(greeks_out["call"])
    /\ Called(greeks_out["put"])
    /\ greeks_out["call"].delta.v > SCALE \div 2
    /\ greeks_out["call"].delta.v < SCALE
    /\ greeks_out["put"].delta.v < 0
    /\ greeks_out["put"].delta.v > -SCALE

\* C8: for valid non-degenerate input gamma and vega are >= 0, and the call
\* and the put of the same parameters have the same gamma and the same vega.
C8_GammaVegaSideIndependent ==
    NonDegenerate =>
        /\ \A ot \in OptionTypes :
              Called(greeks_out[ot]) =>
                  /\ IsFin(greeks_out[ot].gamma)
                  /\ IsFin(greeks_out[ot].vega)
                  /\ greeks_out[ot].gamma.v >= 0
                  /\ greeks_out[ot].vega.v >= 0
        /\ (Called(greeks_out["call"]) /\ Called(greeks_out["put"])) =>
              /\ greeks_out["call"].gamma = greeks_out["put"].gamma
              /\ greeks_out["call"].vega = greeks_out["put"].vega

C8_Witness ==
    /\ NonDegenerate
    /\ Called(greeks_out["call"])
    /\ Called(greeks_out["put"])
    /\ greeks_out["put"].gamma.v > 0
    /\ greeks_out["put"].vega.v > 0

\* C10: on the general path theta is the annualized theta divided by 365,
\* vega is S phi(d1) sqrt(T) divided by 100, rho is the annualized rho
\* divided by 100, delta and gamma are returned unscaled; the same for call
\* and put.
C10_DocumentedUnits ==
    \A ot \in OptionTypes :
        (Called(greeks_out[ot]) /\ greeks_out[ot].status = "ok"
         /\ greeks_out[ot].branch = "general") =>
            LET d1 == D1(S, K, T, r, sigma)
                d2 == D2(d1, T, sigma)
                g == greeks_out[ot]
            IN /\ g.theta = Div(Theta(S, K, T, r, sigma, d1, d2, ot), Fin(365 * SCALE))
               /\ g.vega = Div(Mul(Mul(Fin(S), norm_pdf(d1)), Sqrt(Fin(T))),
                               Fin(100 * SCALE))
               /\ g.rho = Div(Rho(K, T, r, d2, ot), Fin(100 * SCALE))
               /\ g.delta = Delta(d1, ot)
               /\ g.gamma = Gamma(S, T, sigma, d1, ot)

\* both sides computed on the general path with non-zero theta, vega and rho
C10_Witness ==
    /\ NonDegenerate
    /\ \A ot \in OptionTypes :
          /\ greeks_out[ot].status = "ok"
          /\ greeks_out[ot].branch = "general"
          /\ greeks_out[ot].theta.v < 0
          /\ greeks_out[ot].vega.v > 0
          /\ greeks_out[ot].rho.v # 0

\* the formulas of each side as the specification's section 4 writes them
SidePrice(side, d1, d2) ==
    IF side = "call"
    THEN Sub(Mul(Fin(S), norm_cdf(d1)),
             Mul(Mul(Fin(K), Exp(Mul(Neg(Fin(r)), Fin(T)))), norm_cdf(d2)))
    ELSE Sub(Mul(Mul(Fin(K), Exp(Mul(Neg(Fin(r)), Fin(T)))), norm_cdf(Neg(d2))),
             Mul(Fin(S), norm_cdf(Neg(d1))))

SideDelta(side, d1) ==
    IF side = "call" THEN norm_cdf(d1) ELSE Sub(norm_cdf(d1), Fin(SCALE))

SideTheta(side, d1, d2) ==
    LET decay == Div(Neg(Mul(Mul(Fin(S), norm_pdf(d1)), Fin(sigma))),
                     Mul(Fin(2 * SCALE), Sqrt(Fin(T))))
        carry == Mul(Fin(r), Mul(Fin(K), Exp(Mul(Neg(Fin(r)), Fin(T)))))
    IN Div(IF side = "call"
           THEN Sub(decay, Mul(carry, norm_cdf(d2)))
           ELSE Add(decay, Mul(carry, norm_cdf(Neg(d2)))),
           Fin(365 * SCALE))

SideRho(side, d2) ==
    LET kt == Mul(Mul(Fin(K), Fin(T)), Exp(Mul(Neg(Fin(r)), Fin(T))))
    IN Div(IF side = "call"
           THEN Mul(kt, norm_cdf(d2))
           ELSE Mul(Neg(kt), norm_cdf(Neg(d2))),
           Fin(100 * SCALE))

\* the side the claim assigns to what the caller wrote: 'call' for the exact
\* string 'call' and for an omitted argument, 'put' for anything else
ClaimedSide(arg) == IF arg \in {"call", Omitted} THEN "call" ELSE "put"

\* C11: an option_type other than the exact string 'call' is never rejected
\* and gets the put formulas for price, delta, theta and rho in both
\* functions; an omitted option_type gets the call formulas in both.
C11_SideDispatch ==
    \A arg \in {Unrecognised, Omitted} :
        LET d1 == D1(S, K, T, r, sigma)
            d2 == D2(d1, T, sigma)
            p == price_out[arg]
            g == greeks_out[arg]
        IN /\ Called(p) =>
                /\ p.status \in {"ok", "ZeroDivisionError"}
                /\ p.status = "ZeroDivisionError" => K = 0
                /\ (p.status = "ok" /\ p.branch = "general") =>
                       p.value = Max0(SidePrice(ClaimedSide(arg), d1, d2))
           /\ Called(g) =>
                /\ g.status \in {"ok", "ZeroDivisionError"}
                /\ g.status = "ZeroDivisionError" => K = 0
                /\ (g.status = "ok" /\ g.branch = "general") =>
                       /\ g.delta = SideDelta(ClaimedSide(arg), d1)
                       /\ g.theta = SideTheta(ClaimedSide(arg), d1, d2)
                       /\ g.rho = SideRho(ClaimedSide(arg), d2)

\* 'Call' priced and differentiated as a put, the omitted side as a call, on
\* parameters where the two sides differ
C11_Witness ==
    /\ NonDegenerate
    /\ price_out[Unrecognised].status = "ok"
    /\ price_out[Omitted].status = "ok"
    /\ greeks_out[Unrecognised].status = "ok"
    /\ greeks_out[Omitted].status = "ok"
    /\ price_out[Unrecognised].value # price_out[Omitted].value
    /\ greeks_out[Unrecognised].delta.v < 0
    /\ greeks_out[Omitted].delta.v > 0
    /\ greeks_out[Unrecognised].rho.v < 0
    /\ greeks_out[Omitted].rho.v > 0

====
